---- MODULE Spec2Model ----
(***************************************************************************)
(* The file operations of ha_mcp/tools/tools_file_operations.py            *)
(* (read_file, write_file, list_directory) over a POSIX file system.       *)
(*                                                                         *)
(* A string is modelled by its split on "/": the request "/a//b" is        *)
(* <<"", "a", "", "b">> and the empty request is <<"">>.  An absolute,     *)
(* canonical file-system path is the sequence of its names (<<>> is "/").  *)
(* The text of an absolute path, needed by str.startswith, is a sequence   *)
(* of characters.  File data is a sequence of bytes; file content, as the  *)
(* caller sees it, is a sequence of characters.                            *)
(***************************************************************************)
EXTENDS Integers, Sequences, FiniteSets, TLC

VARIABLES fs, pc, call, result, io, preFs, wrote, raced

vars == <<fs, pc, call, result, io, preFs, wrote, raced>>

(***************************************************************************)
(* Bounds of the explored inputs.                                          *)
(***************************************************************************)
MaxSegs == 3

(***************************************************************************)
(* Text.                                                                   *)
(***************************************************************************)
Names == {"config", "config2", "etc", "a", "ab", "b", "l", "zz"}

NameText ==
  [n \in Names |->
     CASE n = "config"  -> <<"c", "o", "n", "f", "i", "g">>
       [] n = "config2" -> <<"c", "o", "n", "f", "i", "g", "2">>
       [] n = "etc"     -> <<"e", "t", "c">>
       [] n = "a"       -> <<"a">>
       [] n = "ab"      -> <<"a", "b">>
       [] n = "b"       -> <<"b">>
       [] n = "l"       -> <<"l">>
       [] n = "zz"      -> <<"z", "z">>]

CodePoint ==
  [c \in {"2", "a", "b", "c", "e", "f", "g", "i", "l", "n", "o", "t", "z"} |->
     CASE c = "2" -> 50  [] c = "a" -> 97  [] c = "b" -> 98  [] c = "c" -> 99
       [] c = "e" -> 101 [] c = "f" -> 102 [] c = "g" -> 103 [] c = "i" -> 105
       [] c = "l" -> 108 [] c = "n" -> 110 [] c = "o" -> 111 [] c = "t" -> 116
       [] c = "z" -> 122]

Front(s) == SubSeq(s, 1, Len(s) - 1)

Last(s) == s[Len(s)]

IsPrefix(s, t) == Len(s) <= Len(t) /\ SubSeq(t, 1, Len(s)) = s

RECURSIVE Flatten(_)
Flatten(ss) == IF ss = <<>> THEN <<>> ELSE Head(ss) \o Flatten(Tail(ss))

\* str(p) of an absolute canonical path p
AbsStr(p) ==
  IF p = <<>> THEN <<"/">>
  ELSE Flatten([i \in 1..Len(p) |-> <<"/">> \o NameText[p[i]]])

\* str.startswith
startswith(s, prefix) == IsPrefix(prefix, s)

\* the order of str.__lt__ on two names: lexicographic on code points
RECURSIVE CodesLess(_, _)
CodesLess(s, t) ==
  IF t = <<>> THEN FALSE
  ELSE IF s = <<>> THEN TRUE
  ELSE IF CodePoint[Head(s)] # CodePoint[Head(t)]
       THEN CodePoint[Head(s)] < CodePoint[Head(t)]
       ELSE CodesLess(Tail(s), Tail(t))

NameLess(m, n) == CodesLess(NameText[m], NameText[n])

(***************************************************************************)
(* The file system: a function from the canonical paths that exist to      *)
(* their nodes.  A symbolic link holds an absolute target.                 *)
(***************************************************************************)
Dir == [kind |-> "dir", data |-> <<>>, target |-> <<>>]

File(bytes) == [kind |-> "file", data |-> bytes, target |-> <<>>]

Link(t) == [kind |-> "link", data |-> <<>>, target |-> t]

Socket == [kind |-> "socket", data |-> <<>>, target |-> <<>>]

Put(f, p, node) == [q \in DOMAIN f \cup {p} |-> IF q = p THEN node ELSE f[q]]

Remove(f, p) == [q \in {r \in DOMAIN f : ~IsPrefix(p, r)} |-> f[q]]

Children(f, p) == {q \in DOMAIN f : Len(q) = Len(p) + 1 /\ IsPrefix(p, q)}

\* The kernel's path walk from "/" over the components rest (names and
\* ".."), following a final symbolic link when followLast.  It ends "ok" at
\* an existing node, or with an errno; on ENOENT `at` is the missing path
\* and `final` tells that only the last component was missing.
RECURSIVE Walk(_, _, _, _, _)
Walk(f, cur, rest, followLast, fuel) ==
  IF rest = <<>> THEN [err |-> "ok", at |-> cur, final |-> FALSE]
  ELSE IF f[cur].kind # "dir" THEN [err |-> "ENOTDIR", at |-> cur, final |-> FALSE]
  ELSE IF Head(rest) = ".."
       THEN Walk(f, IF cur = <<>> THEN <<>> ELSE Front(cur), Tail(rest), followLast, fuel)
  ELSE LET child == Append(cur, Head(rest))
           last  == Len(rest) = 1
       IN IF child \notin DOMAIN f
            THEN [err |-> "ENOENT", at |-> child, final |-> last]
          ELSE IF f[child].kind = "link" /\ (~last \/ followLast)
            THEN IF fuel = 0
                   THEN [err |-> "ELOOP", at |-> child, final |-> FALSE]
                   ELSE Walk(f, <<>>, f[child].target \o Tail(rest), followLast, fuel - 1)
          ELSE Walk(f, child, Tail(rest), followLast, fuel)

Stat(f, p) == Walk(f, <<>>, p, TRUE, Cardinality(DOMAIN f))

Lstat(f, p) == Walk(f, <<>>, p, FALSE, Cardinality(DOMAIN f))

\* posixpath.realpath(strict=False), which Path.resolve() calls: ".." drops
\* the last component lexically, a name is followed only if lstat finds a
\* symbolic link there, and what does not exist is kept as written.
RECURSIVE JoinRealPath(_, _, _, _)
JoinRealPath(f, path, rest, fuel) ==
  IF rest = <<>> THEN [ok |-> TRUE, path |-> path]
  ELSE IF Head(rest) = ".."
       THEN JoinRealPath(f, IF path = <<>> THEN <<>> ELSE Front(path), Tail(rest), fuel)
  ELSE LET newpath == Append(path, Head(rest))
           is_link == newpath \in DOMAIN f /\ f[newpath].kind = "link"
       IN IF ~is_link THEN JoinRealPath(f, newpath, Tail(rest), fuel)
          ELSE IF fuel = 0 THEN [ok |-> FALSE, path |-> newpath]
          ELSE JoinRealPath(f, <<>>, f[newpath].target \o Tail(rest), fuel - 1)

resolve(f, p) == JoinRealPath(f, <<>>, p, Cardinality(DOMAIN f))

\* Path.exists, Path.is_file, Path.is_dir: os.stat, an OSError read as False
exists(f, p) == Stat(f, p).err = "ok"

is_file(f, p) == LET s == Stat(f, p) IN s.err = "ok" /\ f[s.at].kind = "file"

is_dir(f, p) == LET s == Stat(f, p) IN s.err = "ok" /\ f[s.at].kind = "dir"

(***************************************************************************)
(* Text files: encoding="utf-8", newline=None.                             *)
(***************************************************************************)
ContentChars == {"x", "LF", "CR", "eacute", "SUR"}

\* str.encode("utf-8") of one character; a lone surrogate has no encoding
Utf8(c) ==
  CASE c = "x"      -> <<120>>
    [] c = "LF"     -> <<10>>
    [] c = "CR"     -> <<13>>
    [] c = "eacute" -> <<195, 169>>
    [] c = "SUR"    -> <<>>

Encodable(cs) == \A i \in 1..Len(cs) : cs[i] # "SUR"

encode(cs) == Flatten([i \in 1..Len(cs) |-> Utf8(cs[i])])

\* bytes.decode("utf-8"): ok is FALSE on a byte sequence that is not UTF-8
RECURSIVE decode(_)
decode(bs) ==
  IF bs = <<>> THEN [ok |-> TRUE, text |-> <<>>]
  ELSE LET one(c, n) == LET r == decode(SubSeq(bs, n + 1, Len(bs)))
                        IN [ok |-> r.ok, text |-> <<c>> \o r.text]
       IN CASE Head(bs) = 120 -> one("x", 1)
            [] Head(bs) = 10  -> one("LF", 1)
            [] Head(bs) = 13  -> one("CR", 1)
            [] Head(bs) = 195 /\ Len(bs) >= 2 /\ bs[2] = 169 -> one("eacute", 2)
            [] OTHER -> [ok |-> FALSE, text |-> <<>>]

\* os.linesep on POSIX
linesep == <<"LF">>

\* what a text file opened for writing with newline=None does to "\n"
RECURSIVE write_newlines(_)
write_newlines(cs) ==
  IF cs = <<>> THEN <<>>
  ELSE (IF Head(cs) = "LF" THEN linesep ELSE <<Head(cs)>>) \o write_newlines(Tail(cs))

\* what a text file opened for reading with newline=None does: "\r\n" and
\* a lone "\r" are read as "\n"
RECURSIVE universal_newlines(_)
universal_newlines(cs) ==
  IF cs = <<>> THEN <<>>
  ELSE IF Head(cs) = "CR"
       THEN IF Len(cs) >= 2 /\ cs[2] = "LF"
              THEN <<"LF">> \o universal_newlines(Tail(Tail(cs)))
              ELSE <<"LF">> \o universal_newlines(Tail(cs))
  ELSE <<Head(cs)>> \o universal_newlines(Tail(cs))

(***************************************************************************)
(* Exceptions and the outcome of a block of code: the value it returns or  *)
(* the exception it raises, the file system it leaves and the file-system  *)
(* I/O it performed (reads, writes and creations, in order).               *)
(***************************************************************************)
ErrnoText ==
  [e \in {"ENOENT", "ENOTDIR", "EISDIR", "EEXIST", "ELOOP", "ENXIO"} |->
     CASE e = "ENOENT"  -> "[Errno 2] No such file or directory"
       [] e = "ENOTDIR" -> "[Errno 20] Not a directory"
       [] e = "EISDIR"  -> "[Errno 21] Is a directory"
       [] e = "EEXIST"  -> "[Errno 17] File exists"
       [] e = "ELOOP"   -> "[Errno 40] Too many levels of symbolic links"
       [] e = "ENXIO"   -> "[Errno 6] No such device or address"]

Return(v, f, eff) == [raised |-> FALSE, value |-> v, exc |-> "", fs |-> f, io |-> eff]

Raise(e, f, eff) == [raised |-> TRUE, value |-> <<>>, exc |-> e, fs |-> f, io |-> eff]

\* Path.read_text(encoding="utf-8")
read_text(f, p) ==
  LET s == Stat(f, p) IN
  IF s.err # "ok" THEN Raise(ErrnoText[s.err], f, <<>>)
  ELSE IF f[s.at].kind = "dir" THEN Raise(ErrnoText["EISDIR"], f, <<>>)
  ELSE IF f[s.at].kind # "file" THEN Raise(ErrnoText["ENXIO"], f, <<>>)
  ELSE LET d == decode(f[s.at].data) IN
       IF ~d.ok THEN Raise("'utf-8' codec can't decode byte", f, <<[op |-> "read", at |-> s.at]>>)
       ELSE Return(universal_newlines(d.text), f, <<[op |-> "read", at |-> s.at]>>)

\* Path.write_text(content, encoding="utf-8"): open(p, "w") creates or
\* truncates the file, then the encoded text is written
write_text(f, p, content) ==
  LET s    == Stat(f, p)
      made == s.err = "ENOENT" /\ s.final
      io0  == <<[op |-> IF made THEN "create" ELSE "truncate", at |-> s.at]>>
      f0   == Put(f, s.at, File(<<>>))
  IN IF s.err # "ok" /\ ~made THEN Raise(ErrnoText[s.err], f, <<>>)
     ELSE IF ~made /\ f[s.at].kind = "dir" THEN Raise(ErrnoText["EISDIR"], f, <<>>)
     ELSE IF ~made /\ f[s.at].kind # "file" THEN Raise(ErrnoText["ENXIO"], f, <<>>)
     ELSE IF ~Encodable(content)
       THEN Raise("'utf-8' codec can't encode character: surrogates not allowed", f0, io0)
     ELSE Return(Len(content),
                 Put(f, s.at, File(encode(write_newlines(content)))),
                 Append(io0, [op |-> "write", at |-> s.at]))

\* os.mkdir
os_mkdir(f, p) ==
  LET s == Lstat(f, p) IN
  IF p = <<>> \/ s.err = "ok" THEN Raise(ErrnoText["EEXIST"], f, <<>>)
  ELSE IF s.err = "ENOENT" /\ s.final
    THEN Return(<<>>, Put(f, s.at, Dir), <<[op |-> "mkdir", at |-> s.at]>>)
  ELSE Raise(ErrnoText[s.err], f, <<>>)

\* Path.mkdir(mode, parents, exist_ok)
RECURSIVE mkdir(_, _, _, _)
mkdir(f, p, parents, exist_ok) ==
  LET r == os_mkdir(f, p) IN
  IF ~r.raised THEN r
  ELSE IF r.exc = ErrnoText["ENOENT"]
    THEN IF ~parents \/ p = <<>> THEN r
         ELSE LET up == mkdir(f, Front(p), TRUE, TRUE) IN
              IF up.raised THEN up
              ELSE LET me == mkdir(up.fs, p, FALSE, exist_ok)
                   IN [me EXCEPT !.io = up.io \o me.io]
  ELSE IF ~exist_ok \/ ~is_dir(f, p) THEN r
  ELSE Return(<<>>, f, <<>>)

(***************************************************************************)
(* pathlib: the request string and the paths made from it.                 *)
(***************************************************************************)
CONFIG_BASE == <<"config">>

\* str.lstrip("/")
RECURSIVE lstrip(_)
lstrip(path) ==
  IF Len(path) > 1 /\ Head(path) = "" THEN lstrip(Tail(path)) ELSE path

\* Path(s) of a relative string: empty and "." components are dropped,
\* ".." is kept
Path(s) == SelectSeq(s, LAMBDA seg : seg \notin {"", "."})

\* str(Path): "." when no component is left
str(parts) == IF parts = <<>> THEN <<".">> ELSE parts

\* clean_path of read_file and write_file
clean_path(path) == Path(lstrip(path))

\* clean_path of list_directory
list_clean_path(path) == IF path # <<"">> THEN Path(lstrip(path)) ELSE Path(<<".">>)

\* CONFIG_BASE / clean_path
full_path(clean) == CONFIG_BASE \o clean

\* the security check of all three operations
inside_config(f, full) ==
  startswith(AbsStr(resolve(f, full).path), AbsStr(resolve(f, CONFIG_BASE).path))

\* Path.resolve() raises RuntimeError on a symbolic-link loop
resolves(f, full) == resolve(f, full).ok /\ resolve(f, CONFIG_BASE).ok

(***************************************************************************)
(* The result dictionaries.                                                *)
(***************************************************************************)
AccessDenied == [success |-> FALSE, error |-> <<"Access denied: Path outside /config directory">>]

Failure(msg, path) == [success |-> FALSE, error |-> <<msg, path>>]

\* the handler as it would be with "except FileNotFoundError as e": any
\* other exception leaves the call
except_FileNotFoundError(out) ==
  IF out.raised /\ out.exc = ErrnoText["ENOENT"]
    THEN [out EXCEPT !.value = [success |-> FALSE, error |-> <<out.exc>>], !.raised = FALSE]
    ELSE out

\* except Exception as e: return {"success": False, "error": str(e)}; an
\* exception no clause catches leaves the call with no result dictionary
except_Exception(out) ==
  IF out.raised
    THEN [out EXCEPT !.value = [success |-> FALSE, error |-> <<out.exc>>], !.raised = FALSE]
    ELSE out

(***************************************************************************)
(* read_file                                                               *)
(***************************************************************************)
\* lines 27-47: the checks before the read; done when one of them returns
read_checks(f, path) ==
  LET full == full_path(clean_path(path)) IN
  IF ~resolves(f, full)
    THEN [done |-> TRUE, out |-> Raise("Symlink loop", f, <<>>)]
  ELSE IF ~inside_config(f, full)
    THEN [done |-> TRUE, out |-> Return(AccessDenied, f, <<>>)]
  ELSE IF ~exists(f, full)
    THEN [done |-> TRUE, out |-> Return(Failure("File not found: ", path), f, <<>>)]
  ELSE IF ~is_file(f, full)
    THEN [done |-> TRUE, out |-> Return(Failure("Not a file: ", path), f, <<>>)]
  ELSE [done |-> FALSE, out |-> Return(<<>>, f, <<>>)]

\* lines 49-58: the read and the success dictionary
read_use(f, path) ==
  LET clean == clean_path(path)
      r     == read_text(f, full_path(clean))
  IN IF r.raised THEN r
     ELSE Return([success |-> TRUE, content |-> r.value, path |-> str(clean),
                  size |-> Len(r.value)], r.fs, r.io)

read_file(f, path) ==
  LET c == read_checks(f, path)
  IN except_Exception(IF c.done THEN c.out ELSE read_use(f, path))

(***************************************************************************)
(* write_file                                                              *)
(***************************************************************************)
write_body(f, path, content) ==
  LET clean == clean_path(path)
      full  == full_path(clean)
  IN IF ~resolves(f, full) THEN Raise("Symlink loop", f, <<>>)
     ELSE IF ~inside_config(f, full) THEN Return(AccessDenied, f, <<>>)
     ELSE LET m == mkdir(f, Front(full), TRUE, TRUE) IN
          IF m.raised THEN m
          ELSE LET w == write_text(m.fs, full, content) IN
               IF w.raised THEN [w EXCEPT !.io = m.io \o w.io]
               ELSE Return([success |-> TRUE, path |-> str(clean), size |-> Len(content)],
                           w.fs, m.io \o w.io)

write_file(f, path, content) == except_Exception(write_body(f, path, content))

(***************************************************************************)
(* list_directory                                                          *)
(***************************************************************************)
\* lines 123-143: the checks before the enumeration
list_checks(f, path) ==
  LET full == full_path(list_clean_path(path)) IN
  IF ~resolves(f, full)
    THEN [done |-> TRUE, out |-> Raise("Symlink loop", f, <<>>)]
  ELSE IF ~inside_config(f, full)
    THEN [done |-> TRUE, out |-> Return(AccessDenied, f, <<>>)]
  ELSE IF ~exists(f, full)
    THEN [done |-> TRUE, out |-> Return(Failure("Directory not found: ", path), f, <<>>)]
  ELSE IF ~is_dir(f, full)
    THEN [done |-> TRUE, out |-> Return(Failure("Not a directory: ", path), f, <<>>)]
  ELSE [done |-> FALSE, out |-> Return(<<>>, f, <<>>)]

\* sorted(): the items of one directory compare by their names
RECURSIVE insert(_, _)
insert(n, sortedNames) ==
  IF sortedNames = <<>> THEN <<n>>
  ELSE IF NameLess(n, Head(sortedNames)) THEN <<n>> \o sortedNames
  ELSE <<Head(sortedNames)>> \o insert(n, Tail(sortedNames))

\* the loop of line 146 without sorted(): the order of os.listdir
unsorted(names) == names

RECURSIVE sorted(_)
sorted(names) == IF names = <<>> THEN <<>> ELSE insert(Head(names), sorted(Tail(names)))

\* lines 147-155: the entry of one item
entry(f, item) ==
  LET type == IF is_dir(f, item) THEN "directory" ELSE "file" IN
  IF is_file(f, item)
    THEN [name |-> Last(item), type |-> type, size |-> Len(f[Stat(f, item).at].data)]
    ELSE [name |-> Last(item), type |-> type]

\* the orders in which os.listdir may hand out the names of a directory
Orders(f, full) ==
  LET s     == Stat(f, full)
      names == IF s.err = "ok" /\ f[s.at].kind = "dir"
                 THEN {Last(q) : q \in Children(f, s.at)} ELSE {}
      n     == Cardinality(names)
  IN {o \in [1..n -> names] : \A i, j \in 1..n : o[i] = o[j] => i = j}

\* lines 145-164: the enumeration, in the order listdir hands out, and the
\* success dictionary
list_use(f, path, order) ==
  LET clean == list_clean_path(path)
      full  == full_path(clean)
      s     == Stat(f, full)
      items == sorted(order)
  IN IF s.err # "ok" THEN Raise(ErrnoText[s.err], f, <<>>)
     ELSE IF f[s.at].kind # "dir" THEN Raise(ErrnoText["ENOTDIR"], f, <<>>)
     ELSE Return([success |-> TRUE,
                  path    |-> IF str(clean) # <<".">> THEN str(clean) ELSE <<"">>,
                  entries |-> [i \in 1..Len(items) |-> entry(f, Append(full, items[i]))],
                  count   |-> Len(items)],
                 f, <<[op |-> "listdir", at |-> s.at]>>)

list_directory(f, path, order) ==
  LET c == list_checks(f, path)
  IN except_Exception(IF c.done THEN c.out ELSE list_use(f, path, order))

(***************************************************************************)
(* The inputs and the initial file systems.                                *)
(***************************************************************************)
Segs == {"", ".", "..", "a", "b", "l", "config2"}

SeqsUpTo(S, n) == UNION {[1..k -> S] : k \in 0..n}

Requests == SeqsUpTo(Segs, MaxSegs) \ {<<>>}

\* "", "x", "x\n", "\r\n", an e with an acute accent, a lone surrogate
Contents ==
  {<<>>, <<"x">>, <<"x", "LF">>, <<"CR", "LF">>, <<"eacute">>, <<"SUR">>}

\* /config holds a (a directory with a binary file, a text file, or
\* nothing), the socket ab, the text file b and the symbolic link l (to
\* target lt); /config2 and /etc lie beside it
MakeFs(lt, ak) ==
  LET base == (<<>> :> Dir) @@ (<<"config">> :> Dir) @@ (<<"config2">> :> Dir)
              @@ (<<"etc">> :> Dir)
              @@ (<<"config", "ab">> :> Socket)
              @@ (<<"config", "b">> :> File(<<120, 13, 10>>))
              @@ (<<"config", "l">> :> Link(lt))
              @@ (<<"config2", "b">> :> File(<<120>>))
              @@ (<<"etc", "b">> :> File(<<120, 120>>))
  IN CASE ak = "dir"  -> base @@ (<<"config", "a">> :> Dir)
                              @@ (<<"config", "a", "b">> :> File(<<255>>))
       [] ak = "file" -> base @@ (<<"config", "a">> :> File(<<195, 169>>))
       [] ak = "none" -> base

InitialFileSystems ==
  {MakeFs(<<"etc">>, "dir"), MakeFs(<<"config2">>, "none"), MakeFs(<<"config">>, "file"),
   MakeFs(<<"config", "a">>, "dir"), MakeFs(<<"config", "a">>, "none"),
   MakeFs(<<"config", "b">>, "dir")}

NoCall == [op |-> "none", path |-> <<"">>, content |-> <<>>]

NoResult == [none |-> TRUE]

NoWrite == [done |-> FALSE]

Init ==
  /\ fs \in InitialFileSystems
  /\ pc = "idle"
  /\ call = NoCall
  /\ result = NoResult
  /\ io = <<>>
  /\ preFs = fs
  /\ wrote = NoWrite
  /\ raced = "no"

\* the caller gets what the call returns; an exception that left the call
\* is a fault, not a result
Returns(out, c) ==
  /\ fs' = out.fs
  /\ result' = (IF out.raised THEN [fault |-> out.exc] ELSE out.value)
  /\ io' = out.io
  /\ call' = c
  /\ pc' = "returned"

ReadFile ==
  /\ pc = "idle"
  /\ \E path \in Requests :
       Returns(read_file(fs, path), [NoCall EXCEPT !.op = "read", !.path = path])
  /\ preFs' = fs
  /\ UNCHANGED <<wrote, raced>>

WriteFile ==
  /\ pc = "idle"
  /\ \E path \in Requests, content \in Contents :
       /\ Returns(write_file(fs, path, content),
                  [NoCall EXCEPT !.op = "write", !.path = path, !.content = content])
       /\ wrote' = [done |-> TRUE, path |-> path, content |-> content, result |-> result']
  /\ preFs' = fs
  /\ UNCHANGED raced

ListDirectory ==
  /\ pc = "idle"
  /\ \E path \in Requests :
       \E order \in Orders(fs, full_path(list_clean_path(path))) :
         Returns(list_directory(fs, path, order), [NoCall EXCEPT !.op = "list", !.path = path])
  /\ preFs' = fs
  /\ UNCHANGED <<wrote, raced>>

\* the caller reads back the path it has just written
ReadBack ==
  /\ pc = "returned" /\ call.op = "write"
  /\ Returns(read_file(fs, call.path), [NoCall EXCEPT !.op = "read", !.path = call.path])
  /\ preFs' = fs
  /\ UNCHANGED <<wrote, raced>>

Next == ReadFile \/ WriteFile \/ ListDirectory \/ ReadBack

Spec == Init /\ [][Next]_vars

(***************************************************************************)
(* The same calls with the window between the checks of read_file and      *)
(* list_directory and their use of the path left open to another actor on  *)
(* the file system.                                                        *)
(***************************************************************************)
ReadCheck ==
  /\ pc = "idle"
  /\ preFs' = fs
  /\ \E path \in Requests :
       LET c  == read_checks(fs, path)
           me == [NoCall EXCEPT !.op = "read", !.path = path]
       IN IF c.done THEN Returns(except_Exception(c.out), me)
          ELSE pc' = "checked" /\ call' = me /\ UNCHANGED <<fs, result, io>>
  /\ UNCHANGED <<wrote, raced>>

ReadUse ==
  /\ pc = "checked" /\ call.op = "read"
  /\ Returns(except_Exception(read_use(fs, call.path)), call)
  /\ UNCHANGED <<preFs, wrote, raced>>

ListCheck ==
  /\ pc = "idle"
  /\ preFs' = fs
  /\ \E path \in Requests :
       LET c  == list_checks(fs, path)
           me == [NoCall EXCEPT !.op = "list", !.path = path]
       IN IF c.done THEN Returns(except_Exception(c.out), me)
          ELSE pc' = "checked" /\ call' = me /\ UNCHANGED <<fs, result, io>>
  /\ UNCHANGED <<wrote, raced>>

ListUse ==
  /\ pc = "checked" /\ call.op = "list"
  /\ \E order \in Orders(fs, full_path(list_clean_path(call.path))) :
       Returns(except_Exception(list_use(fs, call.path, order)), call)
  /\ UNCHANGED <<preFs, wrote, raced>>

\* the node the checked path leads to
Target == Stat(fs, full_path(IF call.op = "list" THEN list_clean_path(call.path)
                                                  ELSE clean_path(call.path))).at

\* another actor deletes the checked target, or replaces it by a node of
\* the other type, once
Interfere ==
  /\ pc = "checked" /\ raced = "no"
  /\ \/ fs' = Remove(fs, Target) /\ raced' = "deleted"
     \/ /\ fs' = Put(Remove(fs, Target), Target,
                     IF fs[Target].kind = "dir" THEN File(<<120>>) ELSE Dir)
        /\ raced' = "retyped"
  /\ UNCHANGED <<pc, call, result, io, preFs, wrote>>

NextRace == ReadCheck \/ ReadUse \/ ListCheck \/ ListUse \/ Interfere \/ WriteFile

SpecRace == Init /\ [][NextRace]_vars

(***************************************************************************)
(* What the claims speak of.                                               *)
(***************************************************************************)
Returned == pc = "returned"

IsSuccess(r) == "success" \in DOMAIN r /\ r.success = TRUE

IsFailure(r) == "success" \in DOMAIN r /\ r.success = FALSE /\ "error" \in DOMAIN r

CleanOf(c) == IF c.op = "list" THEN list_clean_path(c.path) ELSE clean_path(c.path)

FullOf(c) == full_path(CleanOf(c))

\* the canonical resolution of the call's path and of the root
Canonical(f, c) == resolve(f, FullOf(c)).path

Root(f) == resolve(f, CONFIG_BASE).path

\* the canonical resolution is the root or, component by component, below it
Contained(f, c) == IsPrefix(Root(f), Canonical(f, c))

HasTraversal(path) == \E i \in 1..Len(path) : path[i] = ".."

\* the request that names the canonical resolution relative to the root
NormalPath(f, c) ==
  IF Canonical(f, c) = Root(f) THEN <<"">>
  ELSE SubSeq(Canonical(f, c), Len(Root(f)) + 1, Len(Canonical(f, c)))

\* the call c made with another path on file system f
Apply(f, c, path) ==
  CASE c.op = "read"  -> read_file(f, path)
    [] c.op = "write" -> write_file(f, path, c.content)
    [] c.op = "list"  ->
         list_directory(f, path,
                        CHOOSE o \in Orders(f, full_path(list_clean_path(path))) : TRUE)

\* C1: a call whose path canonically resolves outside the root (neither
\* the root nor a component-wise descendant of it) returns the failure
\* "Access denied: Path outside /config directory" and reads, writes and
\* creates nothing.
C1_OutsideIsDenied ==
  (Returned /\ ~Contained(preFs, call)) =>
     result = AccessDenied /\ io = <<>> /\ fs = preFs

\* C2: a call whose path has ".." segments and canonically resolves inside
\* the root has the outcome, the reported path and the resulting file
\* system of the same call made with the normalized path.
C2_TraversalActsAsNormalized ==
  (Returned /\ HasTraversal(call.path) /\ Contained(preFs, call)) =>
     LET n == Apply(preFs, call, NormalPath(preFs, call)) IN
       /\ result.success = n.value.success
       /\ (result.success => result.path = n.value.path)
       /\ fs = n.fs

\* C3: after write_file(p, c) has succeeded on a contained path, reading p
\* back from the unchanged file system succeeds with content c and with
\* the size the write reported.
C3_RoundTrip ==
  (Returned /\ call.op = "read" /\ wrote.done /\ IsSuccess(wrote.result)
     /\ Contained(preFs, call)) =>
     /\ IsSuccess(result)
     /\ result.content = wrote.content
     /\ result.size = wrote.result.size

OSErrors == {<<ErrnoText[e]>> : e \in DOMAIN ErrnoText}

\* C4: every call that has returned gave the caller a result dictionary,
\* success or failure with an error; and when the checked target was
\* deleted or changed type before the read or the enumeration, the result
\* is the failure that carries the operating system's error text.
C4_AlwaysAResult ==
  Returned =>
     /\ IsSuccess(result) \/ (IsFailure(result) /\ result.error # <<>>)
     /\ raced # "no" => IsFailure(result) /\ result.error \in OSErrors

C4_Witness ==
  /\ Returned /\ raced = "deleted" /\ call.op = "read"
  /\ result = [success |-> FALSE, error |-> <<ErrnoText["ENOENT"]>>]

\* C5: a call that returns a failure leaves the file system as it was
\* before the call.
C5_FailureChangesNothing ==
  (Returned /\ IsFailure(result)) => fs = preFs

WriteTarget == Canonical(preFs, call)

\* what a successful write leaves: the target holds exactly the encoded
\* content, every directory on the way to it exists, and nothing else
\* changed but for new directories
WriteEffects ==
  /\ WriteTarget \in DOMAIN fs
  /\ fs[WriteTarget] = File(encode(call.content))
  /\ \A k \in 1..(Len(FullOf(call)) - 1) : is_dir(fs, SubSeq(FullOf(call), 1, k))
  /\ \A k \in 0..(Len(WriteTarget) - 1) :
       /\ SubSeq(WriteTarget, 1, k) \in DOMAIN fs
       /\ fs[SubSeq(WriteTarget, 1, k)] = Dir
  /\ \A q \in DOMAIN preFs \ {WriteTarget} : q \in DOMAIN fs /\ fs[q] = preFs[q]
  /\ \A q \in DOMAIN fs \ (DOMAIN preFs \cup {WriteTarget}) : fs[q] = Dir

\* the directory that is to hold the target does not exist yet
ParentMissing == Front(WriteTarget) \notin DOMAIN preFs

\* C6: a successful write on a contained path leaves the target with exactly
\* the content, all parents existing and every other file as it was; and a
\* write of text that can be encoded, to a path whose parent directory does
\* not exist yet, succeeds.
C6_SuccessfulWrite ==
  (Returned /\ call.op = "write" /\ Contained(preFs, call)) =>
     /\ IsSuccess(result) => WriteEffects
     /\ (ParentMissing /\ Encodable(call.content)) => IsSuccess(result)

\* C7: on a path that passes containment, read_file fails with "File not
\* found: <p>" when the resolved target does not exist, with "Not a file:
\* <p>" when it is no regular file, and succeeds otherwise; list_directory
\* fails with "Directory not found: <p>", with "Not a directory: <p>", or
\* succeeds, likewise; <p> is the caller's string unchanged.
C7_Classification ==
  (Returned /\ call.op \in {"read", "list"} /\ Contained(preFs, call)) =>
     LET t     == Canonical(preFs, call)
         here  == t \in DOMAIN preFs
         kind  == IF call.op = "read" THEN "file" ELSE "dir"
         none  == IF call.op = "read" THEN "File not found: " ELSE "Directory not found: "
         wrong == IF call.op = "read" THEN "Not a file: " ELSE "Not a directory: "
     IN IF ~here THEN result = Failure(none, call.path)
        ELSE IF preFs[t].kind # kind THEN result = Failure(wrong, call.path)
        ELSE IsSuccess(result)

ListedNames == {Last(q) : q \in Children(preFs, Canonical(preFs, call))}

\* C8: a successful list_directory returns the immediate children of the
\* target, each once, in ascending lexicographic order of their names
\* whatever order the file system hands them out in, with count the number
\* of entries; so listing the unchanged directory again returns the same
\* list.
C8_SortedChildren ==
  (Returned /\ call.op = "list" /\ IsSuccess(result)) =>
     LET e == result.entries IN
       /\ {e[i].name : i \in 1..Len(e)} = ListedNames
       /\ \A i, j \in 1..Len(e) : i < j => NameLess(e[i].name, e[j].name)
       /\ result.count = Len(e)
       /\ Len(e) = Cardinality(ListedNames)
       /\ \A o \in Orders(preFs, FullOf(call)) :
            list_directory(preFs, call.path, o).value = result

C8_Witness ==
  /\ Returned /\ call.op = "list" /\ IsSuccess(result)
  /\ result.count = 4
  /\ [i \in 1..4 |-> result.entries[i].name] = <<"a", "ab", "b", "l">>
  /\ Cardinality(Orders(preFs, FullOf(call))) > 1

\* C9: every entry of a listing has a base name, the type "file" or
\* "directory", and a size exactly when its type is "file", whatever kind
\* of node the child is.
C9_SizeExactlyForFiles ==
  (Returned /\ call.op = "list" /\ IsSuccess(result)) =>
     \A i \in 1..Len(result.entries) :
        LET e == result.entries[i] IN
          /\ e.name \in ListedNames
          /\ e.type \in {"file", "directory"}
          /\ ("size" \in DOMAIN e) <=> (e.type = "file")

\* C10: a successful list_directory on a path that resolves to the root
\* itself reports the path "" (never "."), however the path is spelled.
C10_RootPathIsEmpty ==
  (Returned /\ call.op = "list" /\ IsSuccess(result)
     /\ Canonical(preFs, call) = Root(preFs)) =>
     result.path = <<"">>

====
